---- MODULE Spec2Model ----
(***************************************************************************)
(* The graph store and the rule walk of GraphAndRete.ipynb.                *)
(*                                                                         *)
(* Python values are written as follows: an object reference (a Vertex or  *)
(* an Edge) is the object's id, a str; None in the place of a reference is  *)
(* the str "None"; a dict is a function on its keys; a list is a sequence;  *)
(* a value stored in a data dict is a tuple (the str "START" is             *)
(* <<"START">>, the list ['x', '>', 0] is <<"x", ">", 0>>) and None in the   *)
(* place of such a value is the empty tuple; the bools and None that        *)
(* apply_rule returns are "True", "False" and "None".                       *)
(***************************************************************************)
EXTENDS Integers, Sequences, FiniteSets, TLC

VARIABLES
    g,          \* the Graph: [vertices: dict id -> Vertex, edges: dict id -> Edge]
    seen,       \* per vertex, the edges handed out since its last get_first_edge
    sites,      \* per call site that enumerates a vertex, how far its loop has come
    last,       \* the last call made on the store and its outcome
    x,          \* the test value
    visited,    \* list of the edge ids visited
    path,       \* the LifoQueue of edge ids, bottom first
    choice,     \* the edge chosen by the last cell (start_choice_1, next_choice, ...)
    anedge,     \* the edge the backing-up loop stopped at
    result,     \* what the last apply_rule returned
    evaluated,  \* the edge ids of the RULE lines printed, in order
    pc          \* where the walk stands

vars == <<g, seen, sites, last, x, visited, path, choice, anedge, result, evaluated, pc>>

graphVars == <<g, seen, sites, last>>
walkVars == <<x, visited, path, choice, anedge, result, evaluated, pc>>

----------------------------------------------------------------------------
(* Bounds *)

\* vertices in one run of the store
MaxVertices == 2
\* create_edge calls in one run of the store
MaxEdges == 2
\* insert_data calls in one run of the store
MaxInserts == 1
\* rules (edges) of a generated rule network
MaxRules == 3
\* RULE lines one walk may print
MaxSteps == 7
\* edges one loop of a call site may be handed
MaxHanded == 4

----------------------------------------------------------------------------
(* Python values *)

None == "None"
NoneData == << >>
Unbound == "unbound"
EmptyDict == [k \in {} |-> NoneData]

\* d[k] = v on a dict
Put(d, k, v) == [j \in DOMAIN d \cup {k} |-> IF j = k THEN v ELSE d[j]]

\* list(q)[:-1] and list(q)[-1]
Front(s) == SubSeq(s, 1, Len(s) - 1)
Last(s) == s[Len(s)]

Range(s) == {s[i] : i \in DOMAIN s}

----------------------------------------------------------------------------
(* Identity *)

\* the ids uuid4 hands out, in the order it hands them out
VertexIds == <<"s", "a", "b", "c", "t1", "d", "t2">>

new_vertex_id(vertices) == VertexIds[Cardinality(DOMAIN vertices) + 1]

edge_id(vertex1id, vertex2id) == vertex1id \o "." \o vertex2id

----------------------------------------------------------------------------
(* Base: the data dict of a vertex or an edge *)

insert_data(data, name, value) == Put(data, name, value)

get_data(data, name) == IF name \in DOMAIN data THEN data[name] ELSE NoneData

----------------------------------------------------------------------------
(* Vertex, Edge, Graph *)

Vertex == [data |-> EmptyDict, edges |-> << >>, iv |-> 0]

\* a faulty Edge: the endpoints stored the wrong way round
Edge_swapped(v1, v2) == [v1 |-> v2, v2 |-> v1, data |-> EmptyDict]

Edge(v1, v2) == [v1 |-> v1, v2 |-> v2, data |-> EmptyDict]

EdgeBase_get_id(e) == edge_id(e.v1, e.v2)

Graph == [vertices |-> [k \in {} |-> Vertex], edges |-> [k \in {} |-> Edge(None, None)]]

Graph_add_vertex(G, id) == [G EXCEPT !.vertices = Put(@, id, Vertex)]

\* a faulty add_edge: the edge is not put into the dict
Graph_add_edge_dropped(G, edg) == G

Graph_add_edge(G, edg) == [G EXCEPT !.edges = Put(@, EdgeBase_get_id(edg), edg)]

\* a faulty get_vertex: a reference is returned for any id
Graph_get_vertex_any(G, vtxid) == vtxid

Graph_get_vertex(G, vtxid) == IF vtxid \in DOMAIN G.vertices THEN vtxid ELSE None

Graph_get_edge(G, edgid) == IF edgid \in DOMAIN G.edges THEN edgid ELSE None

Vertex_add_edge(G, v, edg) ==
    [G EXCEPT !.vertices[v].edges = Append(@, EdgeBase_get_id(edg))]

\* a faulty get_edge: the edge handed out is taken off the adjacency list
Vertex_get_edge_consuming(G, v) ==
    LET self == G.vertices[v] IN
    IF Len(self.edges) <= self.iv
    THEN [G |-> G, ret |-> None]
    ELSE [G |-> [G EXCEPT !.vertices[v].edges =
                     SubSeq(@, 1, self.iv) \o SubSeq(@, self.iv + 2, Len(@))],
          ret |-> Graph_get_edge(G, self.edges[self.iv + 1])]

\* a faulty get_edge: the cursor moves on by two
Vertex_get_edge_skipping(G, v) ==
    LET self == G.vertices[v] IN
    IF Len(self.edges) <= self.iv
    THEN [G |-> G, ret |-> None]
    ELSE [G |-> [G EXCEPT !.vertices[v].iv = self.iv + 2],
          ret |-> Graph_get_edge(G, self.edges[self.iv + 1])]

\* a faulty get_edge: at the end of the list the cursor goes back to 0
Vertex_get_edge_wrapping(G, v) ==
    LET self == G.vertices[v] IN
    IF Len(self.edges) <= self.iv
    THEN [G |-> [G EXCEPT !.vertices[v].iv = 0], ret |-> None]
    ELSE [G |-> [G EXCEPT !.vertices[v].iv = self.iv + 1],
          ret |-> Graph_get_edge(G, self.edges[self.iv + 1])]

\* the graph after the call, and what the call returned
Vertex_get_edge(G, v) ==
    LET self == G.vertices[v] IN
    IF Len(self.edges) <= self.iv
    THEN [G |-> G, ret |-> None]
    ELSE [G |-> [G EXCEPT !.vertices[v].iv = self.iv + 1],
          ret |-> Graph_get_edge(G, self.edges[self.iv + 1])]

\* a faulty get_first_edge: the cursor is not set back to 0
Vertex_get_first_edge_no_reset(G, v) ==
    Vertex_get_edge(G, v)

Vertex_get_first_edge(G, v) ==
    Vertex_get_edge([G EXCEPT !.vertices[v].iv = 0], v)

number_edges(G, v) == Len(G.vertices[v].edges)

Edge_get_vertex1(G, e) == Graph_get_vertex(G, G.edges[e].v1)

Edge_get_vertex2(G, e) == Graph_get_vertex(G, G.edges[e].v2)

create_edge(G, vertex1, vertex2) ==
    LET e == Edge(vertex1, vertex2) IN
    Graph_add_edge(Vertex_add_edge(Vertex_add_edge(G, vertex1, e), vertex2, e), e)

----------------------------------------------------------------------------
(* The store's operations as steps *)

\* The last operation: the call, the object it was made on (for create_edge
\* the id of the edge made), what it returned and what it raised.
NoCall == [op |-> "none", on |-> None, ret |-> None, raised |-> None]

Call(op, on, ret) == [op |-> op, on |-> on, ret |-> ret, raised |-> None]

\* The call sites that run the loop of dump_graph on a vertex:
\*     e = v.get_first_edge(graph)
\*     while e is not None: ...; e = v.get_edge(graph)
\* Of each: the vertex v, the edges e was bound to so far, whether e is None,
\* and whether another site called get_first_edge or get_edge on v meanwhile.
CallSites == {1, 2}

NoSite == [v |-> None, got |-> << >>, done |-> FALSE, mixed |-> FALSE]

NoSites == [p \in CallSites |-> NoSite]

\* values the harness stores under key 1
VertexMarks == {<<"START">>, <<"TERMINAL">>}
StoreRules == {<<"x", ">", 0>>, <<"x", "<", 2000>>}
DataKeys == {1}

\* the create_edge calls made so far: each appends to two adjacency lists
RECURSIVE SumEdges(_, _)
SumEdges(G, S) ==
    IF S = {} THEN 0
    ELSE LET v == CHOOSE u \in S : TRUE
         IN Len(G.vertices[v].edges) + SumEdges(G, S \ {v})

Created(G) == SumEdges(G, DOMAIN G.vertices) \div 2

\* the entries of all the data dicts
RECURSIVE SumData(_, _)
SumData(f, S) ==
    IF S = {} THEN 0
    ELSE LET o == CHOOSE u \in S : TRUE
         IN Cardinality(DOMAIN f[o].data) + SumData(f, S \ {o})

Entries(G) == SumData(G.vertices, DOMAIN G.vertices) + SumData(G.edges, DOMAIN G.edges)

\* g.add_vertex(Vertex())
AddVertex ==
    /\ Cardinality(DOMAIN g.vertices) < MaxVertices
    /\ LET id == new_vertex_id(g.vertices) IN
         /\ g' = Graph_add_vertex(g, id)
         /\ seen' = Put(seen, id, << >>)
    /\ last' = Call("add_vertex", new_vertex_id(g.vertices), new_vertex_id(g.vertices))
    /\ UNCHANGED <<sites, walkVars>>

\* v.insert_data(name, value) on a vertex of the graph
InsertVertexData(v, name, value) ==
    /\ name \in DOMAIN g.vertices[v].data \/ Entries(g) < MaxInserts
    /\ g' = [g EXCEPT !.vertices[v].data = insert_data(@, name, value)]
    /\ last' = Call("insert_data", v, None)
    /\ UNCHANGED <<seen, sites, walkVars>>

\* e.insert_data(name, value) on an edge of the graph
InsertEdgeData(e, name, value) ==
    /\ name \in DOMAIN g.edges[e].data \/ Entries(g) < MaxInserts
    /\ g' = [g EXCEPT !.edges[e].data = insert_data(@, name, value)]
    /\ last' = Call("insert_data", e, None)
    /\ UNCHANGED <<seen, sites, walkVars>>

\* create_edge(g, vertex1, vertex2)
CreateEdge(vertex1, vertex2) ==
    /\ Created(g) < MaxEdges
    /\ g' = create_edge(g, vertex1, vertex2)
    /\ LET id == EdgeBase_get_id(Edge(vertex1, vertex2))
       IN last' = Call("create_edge", id, id)
    /\ UNCHANGED <<seen, sites, walkVars>>

\* v.get_first_edge(g)
GetFirstEdge(v) ==
    LET r == Vertex_get_first_edge(g, v) IN
    /\ g' = r.G
    /\ seen' = [seen EXCEPT ![v] = IF r.ret = None THEN << >> ELSE <<r.ret>>]
    /\ last' = Call("get_first_edge", v, r.ret)
    /\ UNCHANGED <<sites, walkVars>>

\* v.get_edge(g)
GetEdge(v) ==
    LET r == Vertex_get_edge(g, v) IN
    /\ g' = r.G
    /\ seen' = [seen EXCEPT ![v] = IF r.ret = None THEN @ ELSE Append(@, r.ret)]
    /\ last' = Call("get_edge", v, r.ret)
    /\ UNCHANGED <<sites, walkVars>>

\* the ids lookups are made with: those of the vertices a run may add and of
\* the edges from the first of them
LookupVertexIds == {VertexIds[i] : i \in 1..MaxVertices}
LookupEdgeIds == {edge_id(VertexIds[1], w) : w \in LookupVertexIds}

\* g.get_vertex(vtxid)
GraphGetVertex(vtxid) ==
    /\ last' = Call("graph_get_vertex", vtxid, Graph_get_vertex(g, vtxid))
    /\ UNCHANGED <<g, seen, sites, walkVars>>

\* g.get_edge(edgid)
GraphGetEdge(edgid) ==
    /\ last' = Call("graph_get_edge", edgid, Graph_get_edge(g, edgid))
    /\ UNCHANGED <<g, seen, sites, walkVars>>

InitWalk ==
    /\ x = 85
    /\ visited = << >>
    /\ path = << >>
    /\ choice = Unbound
    /\ anedge = Unbound
    /\ result = Unbound
    /\ evaluated = << >>
    /\ pc = "ready"

\* g = Graph()
Init ==
    /\ g = Graph
    /\ seen = [v \in {} |-> << >>]
    /\ sites = NoSites
    /\ last = NoCall
    /\ InitWalk

\* building a graph and storing data on it
Next ==
    \/ AddVertex
    \/ \E v \in DOMAIN g.vertices, name \in DataKeys, value \in VertexMarks :
           InsertVertexData(v, name, value)
    \/ \E e \in DOMAIN g.edges, name \in DataKeys, value \in StoreRules :
           InsertEdgeData(e, name, value)
    \/ \E vertex1, vertex2 \in DOMAIN g.vertices : CreateEdge(vertex1, vertex2)

Spec == Init /\ [][Next]_vars

\* building a graph and enumerating the edges of its vertices
NextEnum ==
    \/ AddVertex
    \/ \E vertex1, vertex2 \in DOMAIN g.vertices : CreateEdge(vertex1, vertex2)
    \/ \E v \in DOMAIN g.vertices : GetFirstEdge(v)
    \/ \E v \in DOMAIN g.vertices : GetEdge(v)
    \/ \E vtxid \in LookupVertexIds : GraphGetVertex(vtxid)
    \/ \E edgid \in LookupEdgeIds : GraphGetEdge(edgid)

SpecEnum == Init /\ [][NextEnum]_vars

----------------------------------------------------------------------------
(* Rule networks: the graphs the harness builds before a walk *)

\* the values the harness hands in as x
Inputs == {-5, 50, 85}

\* the rules of the generated networks
NetRules == {<<"x", ">", 0>>, <<"x", "<", 80>>}

RECURSIVE AddVertices(_, _)
AddVertices(G, n) ==
    IF n = 0 THEN G
    ELSE LET H == AddVertices(G, n - 1)
         IN Graph_add_vertex(H, new_vertex_id(H.vertices))

\* e = create_edge(g, v1, v2); e.insert_data(1, rule), for each <<v1, v2, rule>>
RECURSIVE AddRules(_, _)
AddRules(G, rules) ==
    IF rules = << >> THEN G
    ELSE LET r == Last(rules)
             v1 == VertexIds[r[1]]
             v2 == VertexIds[r[2]]
             H == create_edge(AddRules(G, Front(rules)), v1, v2)
         IN [H EXCEPT !.edges[edge_id(v1, v2)].data = insert_data(@, 1, r[3])]

\* v.insert_data(1, mark) for each v of vs
RECURSIVE MarkVertices(_, _, _)
MarkVertices(G, vs, mark) ==
    IF vs = {} THEN G
    ELSE LET v == CHOOSE u \in vs : TRUE
         IN [MarkVertices(G, vs \ {v}, mark) EXCEPT
               !.vertices[v].data = insert_data(@, 1, mark)]

\* a network of n vertices, the first of them START
BuildNetwork(n, rules, terminals) ==
    MarkVertices(
        MarkVertices(AddRules(AddVertices(Graph, n), rules), {VertexIds[1]}, <<"START">>),
        terminals, <<"TERMINAL">>)

\* the network of the notebook: start, rule2, rule4, rule3, end_rule1, rule5,
\* end_rule2 are the vertices s, a, b, c, t1, d, t2, and e1 .. e6 its edges
SampleRules ==
    << <<1, 2, <<"x", ">", 0>>>>,
       <<1, 3, <<"x", "<", 2000>>>>,
       <<2, 4, <<"x", ">", 10>>>>,
       <<4, 5, <<"x", "<", 80>>>>,
       <<3, 6, <<"x", "<", 100>>>>,
       <<6, 7, <<"x", ">", 80>>>> >>

SampleNetwork == BuildNetwork(Len(VertexIds), SampleRules, {"t1", "t2"})

\* the generated networks: up to MaxRules rules between the first four
\* vertices, no two on the same pair, each leading to a vertex made later,
\* and at most one vertex marked TERMINAL
NetPairs == {p \in (1..4) \X (1..4) : p[1] < p[2]}

NetScripts ==
    {s \in UNION {[1..k -> NetPairs \X NetRules] : k \in 0..MaxRules} :
        \A i, j \in DOMAIN s : i # j => s[i][1] # s[j][1]}

ScriptRules(s) == [i \in DOMAIN s |-> <<s[i][1][1], s[i][1][2], s[i][2]>>]

NetTerminals == {{}} \cup {{VertexIds[i]} : i \in 2..4}

\* rules whose comparator apply_rule has no branch for
OddRules == {<<"x", "=", 85>>, <<"x", ">=", 0>>}

\* networks of one such rule, from START to a second vertex
OddNetworks ==
    {BuildNetwork(2, <<<<1, 2, r>>>>, t) : r \in OddRules, t \in {{}, {VertexIds[2]}}}

Networks ==
    {SampleNetwork} \cup OddNetworks \cup
    {BuildNetwork(4, ScriptRules(s), t) : s \in NetScripts, t \in NetTerminals}

start == VertexIds[1]

IsTerminal(G, v) == get_data(G.vertices[v].data, 1) = <<"TERMINAL">>

----------------------------------------------------------------------------
(* The walk: the cells of the notebook as steps *)

apply_rule(data, xx) ==
    IF data[2] = ">" THEN (IF xx > data[3] THEN "True" ELSE "False")
    ELSE IF data[2] = "<" THEN (IF xx < data[3] THEN "True" ELSE "False")
    ELSE "None"

\* next_choice = vtx.get_first_edge(g)
\* if next_choice.get_id() in visited: next_choice = vtx.get_edge(g)
\* a faulty choice: the first edge is passed over whether visited or not
next_choice_second(G, vtx, vis) ==
    Vertex_get_edge(Vertex_get_first_edge(G, vtx).G, vtx)

next_choice(G, vtx, vis) ==
    LET r == Vertex_get_first_edge(G, vtx) IN
    IF r.ret # None /\ r.ret \in Range(vis) THEN Vertex_get_edge(r.G, vtx) ELSE r

\* while anedge is not None and anedge.get_id() in visited:
\*     anedge = fvertex.get_edge(g)
RECURSIVE skip_visited(_, _, _)
skip_visited(r, fvertex, vis) ==
    IF r.ret # None /\ r.ret \in Range(vis)
    THEN skip_visited(Vertex_get_edge(r.G, fvertex), fvertex, vis)
    ELSE r

\* the while loop of the backing-up cell: the graph, the path and anedge after
\* it, and for each fvertex.get_first_edge(g) it made, in order, the vertex and
\* the cursor that the call set back to 0
RECURSIVE back_up_loop(_, _, _, _)
back_up_loop(G, pth, vis, an) ==
    IF pth = << >> THEN [G |-> G, path |-> pth, anedge |-> an, reset |-> << >>]
    ELSE LET prev_edge == Graph_get_edge(G, Last(pth))
             fvertex == Edge_get_vertex1(G, prev_edge)
             was == <<fvertex, G.vertices[fvertex].iv>>
             r == skip_visited(Vertex_get_first_edge(G, fvertex), fvertex, vis)
         IN IF r.ret = None
            THEN [back_up_loop(r.G, Front(pth), vis, None) EXCEPT !.reset = <<was>> \o @]
            ELSE [G |-> r.G, path |-> Front(pth), anedge |-> r.ret, reset |-> <<was>>]

\* path.get(), then the loop
back_up(G, pth, vis, an) == back_up_loop(G, Front(pth), vis, an)

\* visited.append(e.get_id()); path.put(e.get_id()); print(apply_rule(e.get_data(1), x))
\* (apply_rule raises TypeError on an edge that has no rule under key 1)
CheckRule(e) ==
    /\ visited' = Append(visited, e)
    /\ path' = Append(path, e)
    /\ choice' = e
    /\ LET data == get_data(g.edges[e].data, 1) IN
         IF data = NoneData
         THEN /\ pc' = "Error"
              /\ UNCHANGED <<result, evaluated>>
         ELSE /\ result' = apply_rule(data, x)
              /\ evaluated' = Append(evaluated, e)
              /\ pc' = "rule"

\* the step whose get_id() is called on None raises AttributeError
Raise ==
    /\ pc' = "Error"
    /\ UNCHANGED <<visited, path, choice, result, evaluated>>

\* "Try the first rule (edge) from the start."
FirstRule ==
    /\ pc = "ready"
    /\ LET r == Vertex_get_first_edge(g, start) IN
         /\ g' = r.G
         /\ IF r.ret = None THEN Raise ELSE CheckRule(r.ret)
    /\ UNCHANGED <<seen, sites, last, x, anedge>>

\* "Now get the other vertex because we passed the rule": the next unvisited
\* edge of the vertex the chosen edge leads to.  A rule passed into a vertex
\* marked TERMINAL is the last one ('TERMINAL ? = TERMINAL'), the walk goes on
\* from the others.
NextRule ==
    /\ pc = "rule"
    /\ result = "True"
    /\ ~IsTerminal(g, g.edges[choice].v2)
    /\ Len(evaluated) < MaxSteps
    /\ LET vtx == Edge_get_vertex2(g, choice)
           r == next_choice(g, vtx, visited)
       IN /\ g' = r.G
          /\ IF r.ret = None THEN Raise ELSE CheckRule(r.ret)
    /\ UNCHANGED <<seen, sites, last, x, anedge>>

\* "we didn't pass the rule.  Now we back up our path (in the LIFO queue) until
\* we find another path."  The cell ends with an edge to check, or with the
\* path empty after 'We do not have a path to go down from here'.  When the
\* loop body never ran and no earlier run of the cell has assigned anedge, the
\* read of anedge that follows raises NameError.
BackUp ==
    /\ pc = "rule"
    /\ result # "True"
    /\ LET b == back_up(g, path, visited, anedge) IN
         /\ g' = b.G
         /\ path' = b.path
         /\ anedge' = b.anedge
         /\ pc' = IF b.anedge = Unbound THEN "Error"
                  ELSE IF b.anedge = None THEN "Failure"
                  ELSE "backtracked"
    /\ UNCHANGED <<seen, sites, last, x, visited, choice, result, evaluated>>

\* "We have an edge, add to visited and path, then let's check the rule"
Resume ==
    /\ pc = "backtracked"
    /\ Len(evaluated) < MaxSteps
    /\ CheckRule(anedge)
    /\ UNCHANGED <<g, seen, sites, last, x, anedge>>

\* "since we passed this terminal path, we now have a working set of rules -
\* the ids of those rules are in our path"
Report ==
    /\ pc = "rule"
    /\ result = "True"
    /\ pc' = "Success"
    /\ UNCHANGED <<g, seen, sites, last, x, visited, path, choice, anedge, result, evaluated>>

InitRete ==
    /\ g \in Networks
    /\ seen = [v \in DOMAIN g.vertices |-> << >>]
    /\ sites = NoSites
    /\ last = NoCall
    /\ x \in Inputs
    /\ visited = << >>
    /\ path = << >>
    /\ choice = Unbound
    /\ anedge = Unbound
    /\ result = Unbound
    /\ evaluated = << >>
    /\ pc = "ready"

NextRete ==
    \/ FirstRule
    \/ NextRule
    \/ BackUp
    \/ Resume
    \/ Report

SpecRete == InitRete /\ [][NextRete]_vars

----------------------------------------------------------------------------
(* What the properties speak of *)

Src(e) == g.edges[e].v1
Dst(e) == g.edges[e].v2

\* the rule of edge e holds of x
Passes(e) == apply_rule(get_data(g.edges[e].data, 1), x) = "True"

\* each edge starts where the one below it ends
IsChain(p) == \A i \in 1..(Len(p) - 1) : Dst(p[i]) = Src(p[i + 1])

NoRepeat(s) == \A i, j \in DOMAIN s : i # j => s[i] # s[j]

IsPrefix(s, t) == Len(s) <= Len(t) /\ s = SubSeq(t, 1, Len(s))

\* the vertices that the edges of E lead to from the vertices of S
RECURSIVE Reach(_, _)
Reach(S, E) ==
    LET T == S \cup {Dst(e) : e \in {f \in E : Src(f) \in S}}
    IN IF T = S THEN S ELSE Reach(T, E)

PassingEdges == {e \in DOMAIN g.edges : Passes(e)}

\* the edges on the paths from START, and those among them that a search
\* crossing only edges whose rule holds comes to
ReachableEdges == {e \in DOMAIN g.edges : Src(e) \in Reach({start}, DOMAIN g.edges)}
TriedEdges == {e \in DOMAIN g.edges : Src(e) \in Reach({start}, PassingEdges)}

\* a path from START to a TERMINAL vertex on which every rule holds
SatisfyingPath ==
    \E e \in PassingEdges :
        Src(e) \in Reach({start}, PassingEdges) /\ IsTerminal(g, Dst(e))

\* a graph without its cursors
Structure(G) ==
    [vertices |-> [v \in DOMAIN G.vertices |->
                     [data |-> G.vertices[v].data, edges |-> G.vertices[v].edges]],
     edges |-> G.edges]

OnSample == Structure(g) = Structure(SampleNetwork)

Ended == pc \in {"Success", "Failure", "Error"}

----------------------------------------------------------------------------
(* The walk's properties *)

\* C1: whenever a walk ends in Success, the path read bottom to top is a
\* connected chain of edges, its first edge leaves START, its last edge enters
\* a vertex marked TERMINAL, and the rule of every edge on it holds of x.
C1_SuccessPath ==
    pc = "Success" =>
        /\ path # << >>
        /\ IsChain(path)
        /\ Src(path[1]) = start
        /\ IsTerminal(g, Dst(Last(path)))
        /\ \A i \in DOMAIN path : Passes(path[i])

Run85 == <<"s.a", "a.c", "c.t1", "s.b", "b.d", "d.t2">>

\* C2: on the sample network with x = 85 the walk checks START->A, A->C,
\* C->T1, START->B, B->D, D->T2 in that order, and when it ends in Success it
\* has checked all six and the path is exactly [START->B, B->D, D->T2].
C2_Sample85 ==
    (OnSample /\ x = 85) =>
        /\ IsPrefix(evaluated, Run85)
        /\ pc = "Success" =>
              (evaluated = Run85 /\ path = <<"s.b", "b.d", "d.t2">>)

RunMinus5 == <<"s.a", "s.b", "b.d", "d.t2">>

\* C3: on the sample network with x = -5 the walk checks START->A, START->B,
\* B->D, D->T2 in that order and ends in Failure, having checked all four,
\* with the path empty.
C3_SampleMinus5 ==
    (OnSample /\ x = -5) =>
        /\ IsPrefix(evaluated, RunMinus5)
        /\ Ended => (pc = "Failure" /\ evaluated = RunMinus5 /\ path = << >>)

\* C4: when a walk ends in Failure every edge that the search comes to from
\* START has been tried exactly once: visited holds no edge twice, holds only
\* edges on paths from START, and misses no edge leaving a vertex that edges
\* whose rule holds lead to from START.
C4_FailureVisitedAll ==
    pc = "Failure" =>
        /\ NoRepeat(visited)
        /\ TriedEdges \subseteq Range(visited)
        /\ Range(visited) \subseteq ReachableEdges

\* C5: a walk (on an acyclic network) ends in Failure only if no path from
\* START to a TERMINAL vertex has every rule on it hold of x.
C5_FailureOnlyIfNoPath == pc = "Failure" => ~SatisfyingPath

\* C6: during one walk the rule of each edge is checked at most once (so that
\* the walk ends within as many checks as the network has edges).
C6_EvaluatedOnce == NoRepeat(evaluated)

----------------------------------------------------------------------------
(* The store: data dicts, edge enumeration, edge creation *)

\* an insert_data(name, value) step on vertex or edge o
InsertData(o, name, value) ==
    \/ o \in DOMAIN g.vertices /\ InsertVertexData(o, name, value)
    \/ o \in DOMAIN g.edges /\ InsertEdgeData(o, name, value)

\* the data dict of vertex or edge o in graph G
DataOf(G, o) == IF o \in DOMAIN G.vertices THEN G.vertices[o].data ELSE G.edges[o].data

\* C7: on every vertex and edge and for every key, an insertData under a key
\* already present fails with DuplicateKey and getData of that key still
\* returns the value stored first.
C7_DuplicateKeyRejected ==
    [][\A o \in DOMAIN g.vertices \cup DOMAIN g.edges, name \in DataKeys,
          value \in VertexMarks \cup StoreRules :
          (name \in DOMAIN DataOf(g, o) /\ InsertData(o, name, value))
              => /\ last'.raised = "DuplicateKey"
                 /\ get_data(DataOf(g', o), name) = get_data(DataOf(g, o), name)]_vars

\* C8: on every vertex, get_first_edge followed by get_edge calls returns the
\* adjacency entries one by one in insertion order, each position once; the
\* next call returns None exactly when all entries were returned, and a call
\* that returned None leaves the cursor where it was, so that every further
\* get_edge returns None as well until get_first_edge starts over.
C8_EnumeratesInOrder ==
    \A v \in DOMAIN g.vertices :
        LET edges == g.vertices[v].edges IN
        /\ Len(seen[v]) <= Len(edges)
        /\ seen[v] = SubSeq(edges, 1, Len(seen[v]))
        /\ Vertex_get_edge(g, v).ret = None <=> seen[v] = edges
        /\ (last.op \in {"get_first_edge", "get_edge"} /\ last.on = v)
               => /\ last.ret = None => seen[v] = edges
                  /\ last.ret # None => last.ret = Last(seen[v])
                  /\ last.ret = None => Vertex_get_edge(g, v) = [G |-> g, ret |-> None]

\* a vertex with two adjacency entries enumerated to the end, and one more call
C8_Witness ==
    \E v \in DOMAIN g.vertices :
        /\ Len(g.vertices[v].edges) >= 2
        /\ seen[v] = g.vertices[v].edges
        /\ last = Call("get_edge", v, None)

\* C9: a create_edge for an ordered pair of vertices that already has an edge
\* is rejected with DuplicateEdge and leaves the graph as it was, and no
\* adjacency list ever holds an edge id twice.
C9_DuplicateEdgeRejected ==
    [][\A vertex1, vertex2 \in DOMAIN g.vertices :
          (edge_id(vertex1, vertex2) \in DOMAIN g.edges /\ CreateEdge(vertex1, vertex2))
              => /\ last'.raised = "DuplicateEdge"
                 /\ g' = g
                 /\ \A v \in DOMAIN g'.vertices : NoRepeat(g'.vertices[v].edges)]_vars

\* C10: after create_edge(g, vertex1, vertex2), g.get_edge of the edge's id
\* returns a record whose first vertex is vertex1 and whose second is vertex2.
C10_CreatedEdgeEndpoints ==
    [][\A vertex1, vertex2 \in DOMAIN g.vertices :
          CreateEdge(vertex1, vertex2)
              => LET e == Graph_get_edge(g', last'.ret) IN
                 /\ e # None
                 /\ Edge_get_vertex1(g', e) = vertex1
                 /\ Edge_get_vertex2(g', e) = vertex2]_vars

\* an edge made between two different vertices, from the second to the first
C10_Witness ==
    /\ last.op = "create_edge"
    /\ last.ret = edge_id(VertexIds[2], VertexIds[1])
    /\ Graph_get_edge(g, last.ret) # None
    /\ Edge_get_vertex1(g, last.ret) = VertexIds[2]
    /\ Edge_get_vertex2(g, last.ret) = VertexIds[1]

----------------------------------------------------------------------------
(* The walk's properties, continued *)

\* the comparator of the rule of edge e
Comparator(e) == get_data(g.edges[e].data, 1)[2]

\* C11: checking a rule whose comparator is neither '>' nor '<' raises an
\* error that ends the step: no such rule ever counts as checked with a
\* result the walk goes on from.
C11_UnrecognizedPredicate ==
    \A i \in DOMAIN evaluated :
        Comparator(evaluated[i]) \in {">", "<"} \/ pc = "Error"

----------------------------------------------------------------------------
(* The store's properties, continued *)

\* the edges of G that leave vertex v
Outgoing(G, v) == {e \in DOMAIN G.edges : G.edges[e].v1 = v}

\* C12: get_first_edge on a vertex returns None exactly when no edge of the
\* graph has that vertex as its first vertex; on a vertex that edges only
\* lead to it returns None.
C12_FirstEdgeNoneIffNoOutgoing ==
    last.op = "get_first_edge" =>
        (last.ret = None <=> Outgoing(g, last.on) = {})

\* C13: whatever vertices and edges were added and whatever data was stored,
\* every entry of every vertex's adjacency list is the id of an edge that
\* get_edge finds in the graph.
C13_NoDanglingEntries ==
    \A v \in DOMAIN g.vertices :
        \A i \in DOMAIN g.vertices[v].edges :
            Graph_get_edge(g, g.vertices[v].edges[i]) # None

\* data was just stored in a graph that has an edge between two vertices
C13_Witness ==
    /\ last.op = "insert_data"
    /\ \E v, w \in DOMAIN g.vertices :
          v # w /\ g.vertices[v].edges # << >> /\ g.vertices[w].edges # << >>

\* C14: g.get_vertex(id) and g.get_edge(id) leave the graph as it was, the
\* cursors included; for an id the graph holds they return that vertex or
\* edge, and for an id it does not hold they return None, not an object.
C14_LookupsArePure ==
    [][/\ \A vtxid \in LookupVertexIds :
            GraphGetVertex(vtxid) =>
                /\ g' = g
                /\ last'.ret = IF vtxid \in DOMAIN g.vertices THEN vtxid ELSE None
       /\ \A edgid \in LookupEdgeIds :
            GraphGetEdge(edgid) =>
                /\ g' = g
                /\ last'.ret = IF edgid \in DOMAIN g.edges THEN edgid ELSE None]_vars

\* a vertex was looked up that the graph does not hold, after an edge was
\* made and handed out by an enumeration
C14_Witness ==
    /\ last.op = "graph_get_vertex"
    /\ last.on \notin DOMAIN g.vertices
    /\ last.ret = None
    /\ \E v \in DOMAIN g.vertices : g.vertices[v].iv > 0

----------------------------------------------------------------------------
(* The walk's properties, continued *)

\* C15: at every point of a walk the path is a connected chain from START: its
\* bottom edge leaves START and every other edge leaves the vertex that the
\* edge below it leads to, so that no edge is put on the path at the vertex it
\* leads to.
C15_PathIsChain ==
    /\ IsChain(path)
    /\ path # << >> => Src(path[1]) = start

\* the place of edge e in the adjacency list of vertex v
Pos(G, v, e) == CHOOSE i \in DOMAIN G.vertices[v].edges : G.vertices[v].edges[i] = e

\* every edge added to vertex v before edge e is in vis
EarlierVisited(G, v, e, vis) ==
    \A k \in 1..(Pos(G, v, e) - 1) : G.vertices[v].edges[k] \in Range(vis)

\* the vertex at which a backing-up step found its edge: the first vertex of
\* the edge it popped last
BackUpVertex == Edge_get_vertex1(g, path[Len(path') + 1])

C17_BackUpKeepsCursor ==
    [][BackUp =>
          LET b == back_up(g, path, visited, anedge) IN
          \A i \in DOMAIN b.reset : b.reset[i][2] = 0]_vars

\* C18: in one walk visited only grows (no step takes an edge out of it, an
\* edge whose rule failed stays in it when it is popped off the path), and
\* an edge that is in visited is never picked for another check.
C18_VisitedOnlyGrows ==
    [][/\ IsPrefix(visited, visited')
       /\ evaluated' # evaluated => Last(evaluated') \notin Range(visited)]_vars

\* C19: a walk changes nothing of the graph but the cursors of its vertices:
\* from its first step to its end the vertices, the edges, every adjacency
\* list, the end vertices of every edge and every data dict stay as they were.
C19_WalkKeepsGraph == [][Structure(g') = Structure(g)]_vars

\* a walk that has backed up to its end, having moved a cursor past two edges
C19_Witness ==
    /\ pc = "Failure"
    /\ Len(visited) >= 2
    /\ \E v \in DOMAIN g.vertices : g.vertices[v].iv >= 2

----------------------------------------------------------------------------
(* Two call sites enumerating the first vertex of one graph *)

\* create_edge(g, v1, v2) for each <<v1, v2>> of pairs
RECURSIVE AddEdges(_, _)
AddEdges(G, pairs) ==
    IF pairs = << >> THEN G
    ELSE LET r == Last(pairs)
         IN create_edge(AddEdges(G, Front(pairs)), VertexIds[r[1]], VertexIds[r[2]])

\* the graphs of up to MaxVertices vertices and MaxEdges create_edge calls
SharedGraphs ==
    UNION {{AddEdges(AddVertices(Graph, n), pairs) :
               pairs \in UNION {[1..k -> (1..n) \X (1..n)] : k \in 0..MaxEdges}} :
           n \in 1..MaxVertices}

\* what the call of site p on vertex v, which returned ret, makes of the sites
Handed(p, v, ret, fresh) ==
    [q \in CallSites |->
        IF q = p
        THEN [v |-> v,
              got |-> IF ret = None THEN (IF fresh THEN << >> ELSE sites[p].got)
                      ELSE (IF fresh THEN <<ret>> ELSE Append(sites[p].got, ret)),
              done |-> ret = None,
              mixed |-> IF fresh THEN FALSE ELSE sites[p].mixed]
        ELSE IF sites[q].v = v /\ ~sites[q].done
             THEN [sites[q] EXCEPT !.mixed = TRUE]
             ELSE sites[q]]

\* e = v.get_first_edge(graph) at call site p
SiteFirst(p, v) ==
    /\ LET r == Vertex_get_first_edge(g, v) IN
         /\ g' = r.G
         /\ sites' = Handed(p, v, r.ret, TRUE)
    /\ UNCHANGED <<seen, last, walkVars>>

\* e = v.get_edge(graph) at call site p, in the loop 'while e is not None'
SiteNext(p) ==
    /\ sites[p].v # None
    /\ ~sites[p].done
    /\ Len(sites[p].got) < MaxHanded
    /\ LET r == Vertex_get_edge(g, sites[p].v) IN
         /\ g' = r.G
         /\ sites' = Handed(p, sites[p].v, r.ret, FALSE)
    /\ UNCHANGED <<seen, last, walkVars>>

InitShared ==
    /\ g \in SharedGraphs
    /\ seen = [v \in DOMAIN g.vertices |-> << >>]
    /\ sites = NoSites
    /\ last = NoCall
    /\ InitWalk

NextShared ==
    \/ \E p \in CallSites : SiteFirst(p, start)
    \/ \E p \in CallSites : SiteNext(p)

SpecShared == InitShared /\ [][NextShared]_vars

\* C20: the cursor of a vertex is shared by all the call sites enumerating
\* it; a loop that no other site's call on the vertex came into is handed
\* every entry of the adjacency list once, in order, and interleaved loops
\* are not: one of them can end with an entry missed or handed twice.
C20_SharedCursor ==
    \A p \in CallSites :
        (sites[p].done /\ ~sites[p].mixed)
            => sites[p].got = g.vertices[sites[p].v].edges

\* a loop has ended that another site's calls came into: it was never bound
\* to one of the entries of the list
C20_Witness ==
    \E p \in CallSites :
        /\ sites[p].done
        /\ sites[p].mixed
        /\ \E i \in DOMAIN g.vertices[sites[p].v].edges :
              g.vertices[sites[p].v].edges[i] \notin Range(sites[p].got)

----------------------------------------------------------------------------
(* The store's properties, continued *)

\* C21: whatever get_first_edge, get_edge and create_edge calls were made,
\* the cursor of every vertex lies between 0 and the length of its adjacency
\* list, and a get_edge call with the cursor at the end of the list returns
\* None and leaves the cursor where it is.
C21_CursorInRange ==
    /\ \A v \in DOMAIN g.vertices :
          LET self == g.vertices[v] IN
          /\ 0 <= self.iv
          /\ self.iv <= Len(self.edges)
          /\ self.iv = Len(self.edges)
                => Vertex_get_edge(g, v) = [G |-> g, ret |-> None]
    /\ (last.op = "get_edge" /\ last.ret = None)
          => g.vertices[last.on].iv = Len(g.vertices[last.on].edges)

\* get_edge has just returned None on a vertex whose list is not empty, while
\* the cursor of another vertex stands inside its list
C21_Witness ==
    /\ last.op = "get_edge"
    /\ last.ret = None
    /\ g.vertices[last.on].edges # << >>
    /\ \E w \in DOMAIN g.vertices :
          /\ w # last.on
          /\ 0 < g.vertices[w].iv
          /\ g.vertices[w].iv < Len(g.vertices[w].edges)

----------------------------------------------------------------------------
(* The walk's properties, continued *)

\* C22: at every point of a walk every edge on the path is in visited, and
\* no edge id is on the path more than once.
C22_PathInVisitedOnce ==
    /\ Range(path) \subseteq Range(visited)
    /\ NoRepeat(path)

----------------------------------------------------------------------------
(* The store's properties, continued *)

\* C23: a value stored under a key of an edge of the graph is what
\* g.get_edge(id).get_data(key) returns after any later add_vertex,
\* create_edge or insert_data other than one on that key of that edge, and
\* the end vertices of the edge stay as they are.
C23_EdgeDataKept ==
    [][\A e \in DOMAIN g.edges :
          /\ Graph_get_edge(g', e) = e
          /\ g'.edges[e].v1 = g.edges[e].v1
          /\ g'.edges[e].v2 = g.edges[e].v2
          /\ \A name \in DOMAIN g.edges[e].data :
                (\E value \in StoreRules : InsertEdgeData(e, name, value))
                \/ get_data(g'.edges[e].data, name) = get_data(g.edges[e].data, name)]_vars

============================================================================
